---- MODULE Spec2Model ----
(***************************************************************************)
(* Model of meta-photo (src/src/main.rs): EXIF extraction, shutter-speed   *)
(* normalisation against the 19-entry standard table, and aggregation of   *)
(* files into a HashMap<MetaData, u32>.                                    *)
(*                                                                         *)
(* f64 values are modelled by their IEEE-754 fields:                       *)
(*   [sign, cls, mag]  with cls in {"fin", "huge", "inf", "nan"}.          *)
(*   "fin":  the value (+/-) mag / Unit seconds; arithmetic on these is    *)
(*           exact (the table neighbours of such a value are within a      *)
(*           factor of two, where f64 subtraction is exact).               *)
(*   "huge": a finite value of magnitude >= 2^59 (for instance 1e20); its  *)
(*           ulp is >= 128, so value - s rounds back to value for every    *)
(*           table value s <= 30.  mag tells two huge values apart.        *)
(*   "inf":  infinity;  "nan": a NaN whose payload is mag.                 *)
(***************************************************************************)
EXTENDS Integers, Sequences, FiniteSets, TLC

VARIABLES pc, entries, pos, metadata_map, handled, slot, output, run, lastRun,
          nvalue, nresult, xfile, xresult

vars == <<pc, entries, pos, metadata_map, handled, slot, output, run, lastRun,
          nvalue, nresult, xfile, xresult>>

pipeVars == <<pc, entries, pos, metadata_map, handled, slot, output, run, lastRun>>
normVars == <<nvalue, nresult>>
extrVars == <<xfile, xresult>>

----------------------------------------------------------------------------
(* f64 *)

\* fixed-point resolution of the "fin" class, in units per second: every
\* table value and every midpoint of two neighbouring table values is a whole
\* number of units
Unit == 2400000

Fin(m) == [sign |-> IF m < 0 THEN 1 ELSE 0, cls |-> "fin", mag |-> IF m < 0 THEN -m ELSE m]
NegZero == [sign |-> 1, cls |-> "fin", mag |-> 0]
Huge(s, m) == [sign |-> s, cls |-> "huge", mag |-> m]
Inf(s) == [sign |-> s, cls |-> "inf", mag |-> 0]
NaN(p) == [sign |-> 0, cls |-> "nan", mag |-> p]

\* signed fixed-point value of a "fin" f64
FinVal(a) == IF a.sign = 1 THEN 0 - a.mag ELSE a.mag

\* a - b in f64, b a table value (finite, 1/8000 .. 30)
FSub(a, b) ==
    CASE a.cls = "nan"  -> a
      [] a.cls = "inf"  -> a
      [] a.cls = "huge" -> a
      [] OTHER          -> Fin(FinVal(a) - FinVal(b))

\* f64::abs clears the sign bit
FAbs(a) == [a EXCEPT !.sign = 0]

ClsTier(a) == CASE a.cls = "fin" -> 0 [] a.cls = "huge" -> 1 [] OTHER -> 2

\* variant of FLt: <= in place of <
FLtBroken(a, b) ==
    /\ a.cls # "nan"
    /\ b.cls # "nan"
    /\ LET ta == IF a.sign = 1 THEN 0 - ClsTier(a) ELSE ClsTier(a)
           tb == IF b.sign = 1 THEN 0 - ClsTier(b) ELSE ClsTier(b)
           ma == IF a.sign = 1 THEN 0 - a.mag ELSE a.mag
           mb == IF b.sign = 1 THEN 0 - b.mag ELSE b.mag
       IN  ta < tb \/ (ta = tb /\ ma <= mb)

\* a < b on f64: false whenever either side is NaN
FLt(a, b) ==
    /\ a.cls # "nan"
    /\ b.cls # "nan"
    /\ LET ta == IF a.sign = 1 THEN 0 - ClsTier(a) ELSE ClsTier(a)
           tb == IF b.sign = 1 THEN 0 - ClsTier(b) ELSE ClsTier(b)
           ma == IF a.sign = 1 THEN 0 - a.mag ELSE a.mag
           mb == IF b.sign = 1 THEN 0 - b.mag ELSE b.mag
       IN  ta < tb \/ (ta = tb /\ ma < mb)

\* layout of the bit pattern: sign bit, class field, magnitude field
SignBit == 1073741824
ClsBase == 268435456
ClsCode(a) == CASE a.cls = "fin" -> 0 [] a.cls = "huge" -> 1 [] a.cls = "inf" -> 2 [] OTHER -> 3

\* f64::to_bits
ToBits(a) == a.sign * SignBit + ClsCode(a) * ClsBase + a.mag

----------------------------------------------------------------------------
(* STANDARD_SHUTTER_SPEEDS and to_closest_shutter_speed *)

STANDARD_SHUTTER_SPEEDS ==
    << [secs |-> Fin(Unit \div 8000),   label |-> "1/8000"],
       [secs |-> Fin(Unit \div 4000),   label |-> "1/4000"],
       [secs |-> Fin(Unit \div 2000),   label |-> "1/2000"],
       [secs |-> Fin(Unit \div 1000),   label |-> "1/1000"],
       [secs |-> Fin(Unit \div 500),    label |-> "1/500"],
       [secs |-> Fin(Unit \div 250),    label |-> "1/250"],
       [secs |-> Fin(Unit \div 125),    label |-> "1/125"],
       [secs |-> Fin(Unit \div 60),     label |-> "1/60"],
       [secs |-> Fin(Unit \div 30),     label |-> "1/30"],
       [secs |-> Fin(Unit \div 15),     label |-> "1/15"],
       [secs |-> Fin(Unit \div 8),      label |-> "1/8"],
       [secs |-> Fin(Unit \div 4),      label |-> "1/4"],
       [secs |-> Fin(Unit \div 2),      label |-> "1/2"],
       [secs |-> Fin(Unit),             label |-> "1"],
       [secs |-> Fin(2 * Unit),         label |-> "2"],
       [secs |-> Fin(4 * Unit),         label |-> "4"],
       [secs |-> Fin(8 * Unit),         label |-> "8"],
       [secs |-> Fin(15 * Unit),        label |-> "15"],
       [secs |-> Fin(30 * Unit),        label |-> "30"] >>

NumSpeeds == Len(STANDARD_SHUTTER_SPEEDS)

Labels == {STANDARD_SHUTTER_SPEEDS[i].label : i \in 1..NumSpeeds}

\* the for loop of to_closest_shutter_speed from table index i on
RECURSIVE ScanFrom(_, _, _, _)
ScanFrom(value, i, closest, min_diff) ==
    IF i > NumSpeeds THEN closest
    ELSE LET diff == FAbs(FSub(value, STANDARD_SHUTTER_SPEEDS[i].secs))
         IN  IF FLt(diff, min_diff)
             THEN ScanFrom(value, i + 1, i, diff)
             ELSE ScanFrom(value, i + 1, closest, min_diff)

\* index of the table entry to_closest_shutter_speed settles on
ClosestIndex(value) ==
    ScanFrom(value, 1, 1, FAbs(FSub(value, STANDARD_SHUTTER_SPEEDS[1].secs)))

to_closest_shutter_speed(value) == STANDARD_SHUTTER_SPEEDS[ClosestIndex(value)].label

----------------------------------------------------------------------------
(* inputs of the normaliser *)

\* offsets tried on either side of each table value and each midpoint
Slack == 2

TableVals == {FinVal(STANDARD_SHUTTER_SPEEDS[i].secs) : i \in 1..NumSpeeds}
MidVals == {(FinVal(STANDARD_SHUTTER_SPEEDS[i].secs)
             + FinVal(STANDARD_SHUTTER_SPEEDS[i + 1].secs)) \div 2 : i \in 1..(NumSpeeds - 1)}

NormInputs ==
    {Fin(v + d) : v \in TableVals \cup MidVals \cup {0, 1248, 19440, 24000, 96000000}, d \in (0 - Slack)..Slack}
    \cup {Fin(0 - 2400000), NegZero}
    \cup {Huge(s, m) : s \in {0, 1}, m \in 1..Slack}
    \cup {Inf(0), Inf(1)}
    \cup {NaN(p) : p \in 1..Slack}

NoLabel == "-"

NormInit ==
    /\ nvalue \in NormInputs
    /\ nresult = NoLabel

\* one call of to_closest_shutter_speed
Normalize ==
    /\ nresult = NoLabel
    /\ nresult' = to_closest_shutter_speed(nvalue)
    /\ UNCHANGED nvalue

----------------------------------------------------------------------------
(* EXIF entries and extract_exif_data *)

None == [some |-> FALSE]
Some(x) == [some |-> TRUE, val |-> x]

Entry(tag, ty, vals) == [tag |-> tag, value |-> [ty |-> ty, vals |-> vals]]

\* Vec::get(i), i counted from 0
Get(vals, i) == IF i + 1 <= Len(vals) THEN Some(vals[i + 1]) ELSE None

\* TagValue::to_f64(i): the i-th element of a rational or floating value as
\* f64 (a rational is held by its quotient), None for an index past the end
\* and for a non-numeric value.  No FNumber or ExposureTime entry tried here
\* holds an integer-typed value.
ToF64(value, i) ==
    CASE value.ty \in {"URational", "F64"} -> Get(value.vals, i)
      [] OTHER -> None

\* closure of the f-stop find_map
FStopOf(entry) == IF entry.tag = "FNumber" THEN ToF64(entry.value, 0) ELSE None

\* closure of the shutter speed find_map
ShutterOf(entry) == IF entry.tag = "ExposureTime" THEN ToF64(entry.value, 0) ELSE None

\* closure of the ISO find_map; v as u32 widens a u16 without changing it
IsoOf(entry) ==
    IF entry.tag = "ISOSpeedRatings"
    THEN CASE entry.value.ty = "U16" -> Get(entry.value.vals, 0)
           [] entry.value.ty = "U32" -> Get(entry.value.vals, 0)
           [] OTHER -> None
    ELSE None

\* variant of FirstSome: the last Some
LastSome(results) ==
    IF \E i \in 1..Len(results) : results[i].some
    THEN results[CHOOSE i \in 1..Len(results) :
                    /\ results[i].some
                    /\ \A j \in (i + 1)..Len(results) : ~results[j].some]
    ELSE None

\* Iterator::find_map over the closure results: the first Some, else None
FirstSome(results) ==
    IF \E i \in 1..Len(results) : results[i].some
    THEN results[CHOOSE i \in 1..Len(results) :
                    /\ results[i].some
                    /\ \A j \in 1..(i - 1) : ~results[j].some]
    ELSE None

\* variant of MatchTriple: a missing ISO defaults to 0
MatchPartial(f, s, i) ==
    IF f.some /\ s.some
    THEN Some([f_stop |-> f.val, shutter_speed |-> s.val, iso |-> IF i.some THEN i.val ELSE 0])
    ELSE None

\* the final match of extract_exif_data
MatchTriple(f, s, i) ==
    IF f.some /\ s.some /\ i.some
    THEN Some([f_stop |-> f.val, shutter_speed |-> s.val, iso |-> i.val])
    ELSE None

\* file.parse: whether parse_file(path) is Ok; file.exif: exif.entries
extract_exif_data(file) ==
    IF ~file.parse THEN None
    ELSE LET es == file.exif
             f_stop == FirstSome([k \in 1..Len(es) |-> FStopOf(es[k])])
             shutter_speed == FirstSome([k \in 1..Len(es) |-> ShutterOf(es[k])])
             iso == FirstSome([k \in 1..Len(es) |-> IsoOf(es[k])])
         IN  MatchTriple(f_stop, shutter_speed, iso)

----------------------------------------------------------------------------
(* inputs of the extractor *)

\* longest entry collection tried
MaxEntries == 4

EntryPool ==
    { Entry("FNumber", "URational", <<Fin(3360000)>>),
      Entry("FNumber", "F64", <<Fin(6720000)>>),
      Entry("FNumber", "Ascii", <<>>),
      Entry("ExposureTime", "URational", <<Fin(19200), Fin(1200)>>),
      Entry("ExposureTime", "URational", <<>>),
      Entry("ISOSpeedRatings", "U16", <<100>>),
      Entry("ISOSpeedRatings", "U32", <<200, 400>>),
      Entry("ISOSpeedRatings", "Ascii", <<>>),
      Entry("Other", "U16", <<7>>) }

SeqsUpTo(S, n) == UNION {[1..k -> S] : k \in 0..n}

Pending == [some |-> FALSE, pending |-> TRUE]

ExtrInit ==
    /\ xfile \in {[glob |-> TRUE, parse |-> p, exif |-> es] :
                    p \in BOOLEAN, es \in SeqsUpTo(EntryPool, MaxEntries)}
    /\ xresult = Pending

\* one call of extract_exif_data
Extract ==
    /\ xresult = Pending
    /\ xresult' = extract_exif_data(xfile)
    /\ UNCHANGED xfile

----------------------------------------------------------------------------
(* F64, MetaData and the HashMap<MetaData, u32> *)

\* variant of F64Eq: numeric ==, where NaN differs from itself and 0.0 == -0.0
F64EqNumeric(a, b) ==
    /\ a.cls # "nan"
    /\ b.cls # "nan"
    /\ \/ a = b
       \/ (a.cls = "fin" /\ b.cls = "fin" /\ a.mag = 0 /\ b.mag = 0)

\* impl PartialEq for F64: equality of the bit patterns
F64Eq(a, b) == ToBits(a) = ToBits(b)

\* variant of MetaDataEq: iso left out of the comparison
MetaDataEqNoIso(k1, k2) ==
    /\ F64Eq(k1.f_stop, k2.f_stop)
    /\ k1.exposure = k2.exposure

\* #[derive(PartialEq)] for MetaData: field by field
MetaDataEq(k1, k2) ==
    /\ F64Eq(k1.f_stop, k2.f_stop)
    /\ k1.exposure = k2.exposure
    /\ k1.iso = k2.iso

\* variant of MakeMetaData: the raw seconds, formatted, as exposure
MakeMetaDataRaw(triple) ==
    [f_stop   |-> triple.f_stop,
     exposure |-> ToString(triple.shutter_speed.mag),
     iso      |-> triple.iso]

\* the MetaData built from an extracted triple
MakeMetaData(triple) ==
    [f_stop   |-> triple.f_stop,
     exposure |-> to_closest_shutter_speed(triple.shutter_speed),
     iso      |-> triple.iso]

EmptyMap == [k \in {} |-> 0]

\* the key HashMap::entry(key) lands on: the stored key equal to it, else key
StoredKey(map, key) ==
    IF \E k \in DOMAIN map : MetaDataEq(k, key)
    THEN CHOOSE k \in DOMAIN map : MetaDataEq(k, key)
    ELSE key

\* variant of Aggregate: a key already present is not incremented
AggregateNoIncrement(map, key) ==
    LET k == StoredKey(map, key)
    IN  IF k \in DOMAIN map THEN map ELSE (k :> 1) @@ map

\* *metadata_map.entry(meta_data).or_insert(0) += 1
Aggregate(map, key) ==
    LET k == StoredKey(map, key)
    IN  IF k \in DOMAIN map THEN [map EXCEPT ![k] = @ + 1] ELSE (k :> 1) @@ map

\* variant of StepTable: a file without a triple is counted under a default key
StepTableDefaultKey(map, entry) ==
    IF entry.glob
    THEN LET r == extract_exif_data(entry)
         IN  IF r.some THEN Aggregate(map, MakeMetaData(r.val))
             ELSE Aggregate(map, [f_stop |-> Fin(0), exposure |-> "1/8000", iso |-> 0])
    ELSE map

\* the match on one enumerated entry: what it does to the table
StepTable(map, entry) ==
    IF entry.glob
    THEN LET r == extract_exif_data(entry)
         IN  IF r.some THEN Aggregate(map, MakeMetaData(r.val)) ELSE map
    ELSE map

\* variant of NextPos: a glob error leaves the loop
NextPosBreak(entry, p) == IF entry.glob THEN p + 1 ELSE 0 - 1

\* the for loop moves on to the next enumerated entry
NextPos(entry, p) == p + 1

----------------------------------------------------------------------------
(* the files of a run *)

\* most entries the glob enumerates
MaxFiles == 3

File(g, p, es) == [glob |-> g, parse |-> p, exif |-> es]

Photo(f, s, ty, i) ==
    File(TRUE, TRUE, << Entry("FNumber", "F64", <<f>>),
                        Entry("ExposureTime", "URational", <<s>>),
                        Entry("ISOSpeedRatings", ty, <<i>>) >>)

GlobErr == File(FALSE, FALSE, <<>>)
ParseFail == File(TRUE, FALSE, <<>>)
MissingISO == File(TRUE, TRUE, << Entry("FNumber", "URational", <<Fin(6720000)>>),
                                  Entry("ExposureTime", "URational", <<Fin(19200)>>) >>)
PhotoA == Photo(Fin(3360000), Fin(1200), "U16", 200)
PhotoB == Photo(Fin(3360000), Fin(1248), "U32", 200)
PhotoC == Photo(Fin(3360000), Fin(1200), "U16", 400)
PhotoZero == Photo(Fin(0), Fin(1200), "U16", 200)
PhotoNegZero == Photo(NegZero, Fin(1200), "U16", 200)
PhotoNaN1 == Photo(NaN(1), Fin(1200), "U16", 200)
PhotoNaN2 == Photo(NaN(2), Fin(1200), "U16", 200)

FilePool == {GlobErr, ParseFail, MissingISO, PhotoA, PhotoB, PhotoC,
             PhotoZero, PhotoNegZero, PhotoNaN1, PhotoNaN2}

Reorderings(s) == {[i \in 1..Len(s) |-> s[p[i]]] : p \in Permutations(1..Len(s))}

NoOutput == [errors |-> 0, dumped |-> FALSE, groups |-> {}]

----------------------------------------------------------------------------
(* main *)

Init ==
    /\ pc = "config"
    /\ entries \in SeqsUpTo(FilePool, MaxFiles)
    /\ pos = 0
    /\ metadata_map = EmptyMap
    /\ handled = <<>>
    /\ slot = <<>>
    /\ output = NoOutput
    /\ run = "first"
    /\ lastRun = [reordered |-> FALSE, table |-> EmptyMap]
    /\ nvalue = Fin(0)
    /\ nresult = NoLabel
    /\ xfile = GlobErr
    /\ xresult = Pending

\* load_config_from_yaml: either expect() may panic
LoadConfig ==
    /\ pc = "config"
    /\ \E ok \in BOOLEAN : pc' = IF ok THEN "glob" ELSE "aborted"
    /\ metadata_map' = EmptyMap
    /\ UNCHANGED <<entries, pos, handled, slot, output, run, lastRun>>
    /\ UNCHANGED <<normVars, extrVars>>

\* glob(pattern).expect(..): a bad pattern panics, else enumeration starts
Glob ==
    /\ pc = "glob"
    /\ \E ok \in BOOLEAN :
          /\ pc' = IF ok THEN "loop" ELSE "aborted"
          /\ pos' = IF ok THEN 1 ELSE pos
    /\ UNCHANGED <<entries, metadata_map, handled, slot, output, run, lastRun>>
    /\ UNCHANGED <<normVars, extrVars>>

\* one iteration of the for loop
HandleEntry ==
    /\ pc = "loop"
    /\ pos >= 1
    /\ pos <= Len(entries)
    /\ LET entry == entries[pos]
           r == IF entry.glob THEN extract_exif_data(entry) ELSE None
       IN  /\ metadata_map' = StepTable(metadata_map, entry)
           /\ slot' = Append(slot, IF r.some
                                   THEN LET meta_data == MakeMetaData(r.val)
                                        IN  Some([made   |-> meta_data,
                                                  stored |-> StoredKey(metadata_map, meta_data)])
                                   ELSE None)
           /\ output' = IF entry.glob THEN output
                        ELSE [output EXCEPT !.errors = @ + 1]
           /\ pos' = NextPos(entry, pos)
    /\ handled' = Append(handled, pos)
    /\ UNCHANGED <<pc, entries, run, lastRun>>
    /\ UNCHANGED <<normVars, extrVars>>

\* the enumeration is exhausted: print the grouped results and return
Dump ==
    /\ pc = "loop"
    /\ ~(pos >= 1 /\ pos <= Len(entries))
    /\ output' = [output EXCEPT !.dumped = TRUE,
                                !.groups = {[data |-> k, count |-> metadata_map[k]] :
                                              k \in DOMAIN metadata_map}]
    /\ pc' = "done"
    /\ UNCHANGED <<entries, pos, metadata_map, handled, slot, run, lastRun>>
    /\ UNCHANGED <<normVars, extrVars>>

\* the program is started again over the same files, enumerated in any order
Rerun ==
    /\ pc = "done"
    /\ run = "first"
    /\ run' = "second"
    /\ entries' \in Reorderings(entries)
    /\ lastRun' = [reordered |-> entries' # entries, table |-> metadata_map]
    /\ pc' = "config"
    /\ pos' = 0
    /\ metadata_map' = EmptyMap
    /\ handled' = <<>>
    /\ slot' = <<>>
    /\ output' = NoOutput
    /\ UNCHANGED <<normVars, extrVars>>

Next == LoadConfig \/ Glob \/ HandleEntry \/ Dump \/ Rerun

Spec == Init /\ [][Next]_vars

----------------------------------------------------------------------------
(* the normaliser and the extractor on their own *)

IdlePipe ==
    /\ pc = "idle"
    /\ entries = <<>>
    /\ pos = 0
    /\ metadata_map = EmptyMap
    /\ handled = <<>>
    /\ slot = <<>>
    /\ output = NoOutput
    /\ run = "first"
    /\ lastRun = [reordered |-> FALSE, table |-> EmptyMap]

InitNorm ==
    /\ IdlePipe
    /\ NormInit
    /\ xfile = GlobErr
    /\ xresult = Pending

NextNorm == Normalize /\ UNCHANGED <<pipeVars, extrVars>>

SpecNorm == InitNorm /\ [][NextNorm]_vars

InitExtract ==
    /\ IdlePipe
    /\ ExtrInit
    /\ nvalue = Fin(0)
    /\ nresult = NoLabel

NextExtract == Extract /\ UNCHANGED <<pipeVars, normVars>>

SpecExtract == InitExtract /\ [][NextExtract]_vars

----------------------------------------------------------------------------
(* properties of the normaliser (SpecNorm) *)

Secs(i) == FinVal(STANDARD_SHUTTER_SPEEDS[i].secs)
Dist(v, i) == IF v >= Secs(i) THEN v - Secs(i) ELSE Secs(i) - v

\* in exact arithmetic, x is strictly nearer to table entry i than to entry j
RealCloser(x, i, j) ==
    CASE x.cls = "fin"  -> Dist(FinVal(x), i) < Dist(FinVal(x), j)
      [] x.cls = "huge" -> IF x.sign = 0 THEN Secs(i) > Secs(j) ELSE Secs(i) < Secs(j)
      [] OTHER          -> FALSE

IndexOfLabel(l) == CHOOSE i \in 1..NumSpeeds : STANDARD_SHUTTER_SPEEDS[i].label = l

\* C2: for every finite input the returned label is that of a table entry at
\* minimal absolute distance from the input, and of the lowest-indexed such
\* entry when several are at that distance.
C2_NearestLowestIndex ==
    (nresult # NoLabel /\ nvalue.cls \in {"fin", "huge"}) =>
        /\ nresult \in Labels
        /\ LET r == IndexOfLabel(nresult)
           IN  \A j \in 1..NumSpeeds :
                  /\ ~RealCloser(nvalue, j, r)
                  /\ (j < r => RealCloser(nvalue, r, j))

\* C9: the result is always one of the 19 labels, and for a NaN or an
\* infinite input it is the first label, "1/8000".
C9_NonFiniteGivesFirstLabel ==
    nresult # NoLabel =>
        /\ nresult \in Labels
        /\ (nvalue.cls \in {"nan", "inf"} => nresult = "1/8000")

C9_Witness ==
    /\ nvalue = Inf(0)
    /\ nresult = "1/8000"

----------------------------------------------------------------------------
(* properties of the extractor (SpecExtract) *)

TargetTags == {"FNumber", "ExposureTime", "ISOSpeedRatings"}

\* what the find_map closure of a target tag makes of one entry
Decode(tag, entry) ==
    CASE tag = "FNumber"      -> FStopOf(entry)
      [] tag = "ExposureTime" -> ShutterOf(entry)
      [] OTHER                -> IsoOf(entry)

FieldOf(triple, tag) ==
    CASE tag = "FNumber"      -> triple.f_stop
      [] tag = "ExposureTime" -> triple.shutter_speed
      [] OTHER                -> triple.iso

MinOf(S) == CHOOSE k \in S : \A m \in S : k <= m

\* C3 as stated: each field is decided by the first entry carrying its tag
\* alone; if that entry cannot be decoded no triple is returned.
C3_FirstTaggedEntryOnly ==
    (xresult # Pending /\ xfile.parse) =>
        \A tag \in TargetTags :
            LET tagged == {k \in 1..Len(xfile.exif) : xfile.exif[k].tag = tag}
            IN  tagged # {} =>
                  LET d == Decode(tag, xfile.exif[MinOf(tagged)])
                  IN  /\ ~d.some => ~xresult.some
                      /\ xresult.some => (d.some /\ FieldOf(xresult.val, tag) = d.val)

\* C3 amended: each field is decided by the first entry that carries its tag
\* and decodes; entries carrying the tag that do not decode are passed over,
\* entries after the first decodable one never matter, and no triple is
\* returned when no entry with the tag decodes.
C3_FirstDecodableEntry ==
    (xresult # Pending /\ xfile.parse) =>
        \A tag \in TargetTags :
            LET good == {k \in 1..Len(xfile.exif) :
                            xfile.exif[k].tag = tag /\ Decode(tag, xfile.exif[k]).some}
            IN  /\ good = {} => ~xresult.some
                /\ xresult.some =>
                      (good # {} /\ FieldOf(xresult.val, tag)
                                      = Decode(tag, xfile.exif[MinOf(good)]).val)

C3_Witness ==
    /\ xresult # Pending
    /\ xresult.some
    /\ \E k1, k2 \in 1..Len(xfile.exif) :
          /\ k1 < k2
          /\ xfile.exif[k1] = Entry("FNumber", "Ascii", <<>>)
          /\ FStopOf(xfile.exif[k2]) = Some(xresult.val.f_stop)

\* C5: a triple is returned exactly when the parse succeeded and each of the
\* three fields was found and decoded, and a returned triple is complete: each
\* of its fields is the decoded value of an entry carrying that field's tag.
C5_AllOrNothing ==
    xresult # Pending =>
        /\ xresult.some <=>
              /\ xfile.parse
              /\ \A tag \in TargetTags :
                    \E k \in 1..Len(xfile.exif) :
                        xfile.exif[k].tag = tag /\ Decode(tag, xfile.exif[k]).some
        /\ xresult.some =>
              /\ DOMAIN xresult.val = {"f_stop", "shutter_speed", "iso"}
              /\ \A tag \in TargetTags :
                    \E k \in 1..Len(xfile.exif) :
                        /\ xfile.exif[k].tag = tag
                        /\ Decode(tag, xfile.exif[k]) = Some(FieldOf(xresult.val, tag))

C5_Witness ==
    /\ xresult # Pending
    /\ ~xresult.some
    /\ xfile.parse
    /\ \E k \in 1..Len(xfile.exif) : FStopOf(xfile.exif[k]).some
    /\ \E k \in 1..Len(xfile.exif) : ShutterOf(xfile.exif[k]).some
    /\ \E k \in 1..Len(xfile.exif) : xfile.exif[k].tag = "ISOSpeedRatings"

----------------------------------------------------------------------------
(* properties of a run (Spec) *)

\* the triple a handled entry yields, None for a glob error
TripleOf(entry) == IF entry.glob THEN extract_exif_data(entry) ELSE None

\* (aperture bit pattern, normalised label, sensitivity) of a triple
KeyTuple(triple) ==
    <<ToBits(triple.f_stop), to_closest_shutter_speed(triple.shutter_speed), triple.iso>>

TupleOfKey(k) == <<ToBits(k.f_stop), k.exposure, k.iso>>

RECURSIVE SumOver(_, _)
SumOver(map, keys) ==
    IF keys = {} THEN 0
    ELSE LET k == CHOOSE x \in keys : TRUE
         IN  map[k] + SumOver(map, keys \ {k})

SumCounts(map) == SumOver(map, DOMAIN map)

Successes == {i \in 1..Len(handled) : TripleOf(entries[handled[i]]).some}

\* C1: in every state the counts of the table add up to the number of entries
\* handled so far that yielded a triple.
C1_SumEqualsSuccesses == SumCounts(metadata_map) = Cardinality(Successes)

C1_Witness ==
    /\ pc = "done"
    /\ Len(handled) = 3
    /\ \E i \in 1..3 : ~entries[i].glob
    /\ Cardinality(DOMAIN metadata_map) = 1
    /\ SumCounts(metadata_map) = 2

\* <<i, tuple>> for every enumerated file i that yields a triple
FileTuples ==
    LET triples == {<<i, TripleOf(entries[i])>> : i \in 1..Len(entries)}
    IN  {<<p[1], KeyTuple(p[2].val)>> : p \in {q \in triples : q[2].some}}

\* files A, B, C of the end-to-end scenario, in any order
ScenarioOrders == Reorderings(<<PhotoA, PhotoB, PhotoC>>)

KeyA200 == [f_stop |-> Fin(3360000), exposure |-> "1/2000", iso |-> 200]
KeyA400 == [f_stop |-> Fin(3360000), exposure |-> "1/2000", iso |-> 400]

\* C4: at the end of a run the table holds key k with count n exactly when
\* n >= 1 enumerated files yielded a triple with k's aperture bits, normalised
\* label and sensitivity; files A, B, C of the end-to-end scenario give
\* {1.4, "1/2000", 200} -> 2 and {1.4, "1/2000", 400} -> 1.
C4_FinalTableIsGrouping ==
    pc = "done" =>
        LET ft == FileTuples
        IN  /\ {TupleOfKey(k) : k \in DOMAIN metadata_map} = {p[2] : p \in ft}
            /\ \A k1, k2 \in DOMAIN metadata_map :
                  TupleOfKey(k1) = TupleOfKey(k2) => k1 = k2
            /\ \A k \in DOMAIN metadata_map :
                  metadata_map[k] = Cardinality({p \in ft : p[2] = TupleOfKey(k)})
            /\ entries \in ScenarioOrders =>
                  metadata_map = (KeyA200 :> 2) @@ (KeyA400 :> 1)

C4_Witness ==
    /\ pc = "done"
    /\ entries = <<PhotoA, PhotoB, PhotoC>>
    /\ DOMAIN metadata_map = {KeyA200, KeyA400}
    /\ metadata_map[KeyA200] = 2
    /\ metadata_map[KeyA400] = 1

\* C6: handling a glob error, or a file that yields no triple, leaves the
\* table as it was.
C6_SkipLeavesTable ==
    [][(/\ pc = "loop"
        /\ pos \in 1..Len(entries)
        /\ ~TripleOf(entries[pos]).some
        /\ handled' = Append(handled, pos))
       => metadata_map' = metadata_map]_vars

C6_Witness ==
    /\ pc = "loop"
    /\ handled = <<1, 2, 3>>
    /\ TripleOf(entries[1]).some
    /\ ~entries[2].glob
    /\ entries[3] = MissingISO
    /\ Cardinality(DOMAIN metadata_map) = 1
    /\ SumCounts(metadata_map) = 1

\* C7: a second run over the same files, enumerated in any order, ends with
\* the same table as the first.
C7_OrderIndependent ==
    (run = "second" /\ pc = "done") => metadata_map = lastRun.table

C7_Witness ==
    /\ run = "second"
    /\ pc = "done"
    /\ lastRun.reordered
    /\ Cardinality(DOMAIN metadata_map) = 2
    /\ \E i \in 1..Len(entries) : ~TripleOf(entries[i]).some

Counted == {i \in 1..Len(slot) : slot[i].some}

\* C8: the keys built for two handled files land on the same table entry
\* exactly when their aperture bit patterns are identical and their shutter
\* labels and sensitivities are equal; the entry they land on is in the table.
C8_SameEntryIffSameBits ==
    \A i, j \in Counted :
        /\ slot[i].val.stored \in DOMAIN metadata_map
        /\ (slot[i].val.stored = slot[j].val.stored)
              <=> /\ ToBits(slot[i].val.made.f_stop) = ToBits(slot[j].val.made.f_stop)
                  /\ slot[i].val.made.exposure = slot[j].val.made.exposure
                  /\ slot[i].val.made.iso = slot[j].val.made.iso

C8_Witness ==
    /\ pc = "done"
    /\ \E i, j, k \in Counted :
          /\ slot[i].val.made.f_stop = Fin(0)
          /\ slot[j].val.made.f_stop = NegZero
          /\ i # k
          /\ entries[k] = entries[i]
          /\ slot[i].val.stored # slot[j].val.stored
          /\ slot[i].val.stored = slot[k].val.stored
    /\ Cardinality(DOMAIN metadata_map) = 2

\* C10: once the loop has started the entries are handled one at a time in
\* enumeration order, whatever each entry is; while entries remain the loop
\* stands at the next one, and the table is dumped only when all have been.
C10_EveryEntryHandledInOrder ==
    /\ handled = [i \in 1..Len(handled) |-> i]
    /\ Len(slot) = Len(handled)
    /\ pc = "loop" => pos = Len(handled) + 1
    /\ (pc = "loop" /\ Len(handled) < Len(entries)) => pos \in 1..Len(entries)
    /\ (pc = "done" \/ output.dumped) =>
          (pc = "done" /\ output.dumped /\ Len(handled) = Len(entries))

C10_Witness ==
    /\ pc = "done"
    /\ output.dumped
    /\ handled = <<1, 2, 3>>
    /\ entries[1] = GlobErr
    /\ entries[2] = ParseFail
    /\ TripleOf(entries[3]).some
    /\ output.errors = 1
    /\ Cardinality(output.groups) = 1

====
